---------------------------- MODULE Spec2Model ----------------------------
(***************************************************************************)
(* Model of package cosi (src/ed25519/cosi/cosi.go): Ed25519 collective    *)
(* signatures.  Byte strings are sequences of bytes 0..255 with the        *)
(* lengths the code uses (32-byte points and scalars, 64-byte private keys *)
(* and digests).  The curve arithmetic of package edwards25519 and SHA-512 *)
(* are not part of cosi.go; they are modelled after the collaborator       *)
(* contract of the specification: the group generated by B is the cyclic   *)
(* group of order L, a point is held as its multiple of B, and the hash is *)
(* a fixed deterministic function of the bytes written to it.              *)
(***************************************************************************)
EXTENDS Integers, Sequences, FiniteSets, TLC

(***************************************************************************)
(* Sizes of package ed25519.                                               *)
(***************************************************************************)
PublicKeySize == 32
PrivateKeySize == 64
SignatureSize == 64

(***************************************************************************)
(* Order of the group generated by the base point B (the prime l of the    *)
(* specification, scaled down to the largest prime below 2^15).           *)
(***************************************************************************)
L == 32749

(***************************************************************************)
(* Bounds of the model.                                                    *)
(***************************************************************************)
MaxN == 2

\* ------------------------------------------------------------------------
\* Byte strings (Go slices and arrays; index i of Go is index i+1 here)
\* ------------------------------------------------------------------------
Zeros(n) == [i \in 1..n |-> 0]

\* copy(dst, src): the first min(len) bytes of src over dst, the rest of dst kept
Copy(dst, src) ==
  [i \in 1..Len(dst) |-> IF i <= Len(src) THEN src[i] ELSE dst[i]]

\* b[lo:hi]
Slice(b, lo, hi) == SubSeq(b, lo + 1, hi)

\* b & (1 << j) != 0
BitSet(b, j) == (b \div (2 ^ j)) % 2 = 1

\* the sum of b[i] * w[i] for i in lo..hi, eight terms at a time
Dot8(b, w, k) ==
  b[k] * w[k] + b[k + 1] * w[k + 1] + b[k + 2] * w[k + 2] + b[k + 3] * w[k + 3]
    + b[k + 4] * w[k + 4] + b[k + 5] * w[k + 5] + b[k + 6] * w[k + 6]
    + b[k + 7] * w[k + 7]
RECURSIVE Dot(_, _, _, _)
Dot(b, w, lo, hi) ==
  IF lo > hi THEN 0
  ELSE IF lo + 7 <= hi THEN Dot8(b, w, lo) + Dot(b, w, lo + 8, hi)
  ELSE b[lo] * w[lo] + Dot(b, w, lo + 1, hi)

\* ------------------------------------------------------------------------
\* package edwards25519 and crypto/sha512 (collaborator contract)
\* ------------------------------------------------------------------------
\* 256^k modulo L, for the 64 byte positions of a digest
RECURSIVE Pow256ModL(_)
Pow256ModL(k) == IF k = 0 THEN 1 ELSE (256 * Pow256ModL(k - 1)) % L
Weights == [i \in 1..64 |-> Pow256ModL(i - 1)] \o <<>>

\* the little-endian integer held in b (at most 64 bytes), modulo L
LEMod(b) == Dot(b, Weights, 1, Len(b)) % L

Zeros30 == [i \in 1..30 |-> 0] \o <<>>

\* the scalar v < 2^16 as 32 little-endian bytes
ScBytes(v) == <<v % 256, v \div 256>> \o Zeros30

ScReduce(d) == ScBytes(LEMod(d))

\* a*b + c mod l
ScMulAdd(a, b, c) == ScBytes((LEMod(a) * LEMod(b) + LEMod(c)) % L)

\* ExtendedGroupElement: the point k*B is held as k
GeZero == 0
GeAdd(p, q) == (p + q) % L
GeSub(p, q) == (p + L - q) % L
\* FeNeg of the X and T coordinates
GeNeg(p) == (L - p) % L
GeScalarMultBase(s) == LEMod(s)
\* a*A + b*B
GeDoubleScalarMultVartime(a, A, b) == (LEMod(a) * A + LEMod(b)) % L

\* the canonical encoding of a point; the identity encodes as 01 00 .. 00
ToBytes(p) == <<(p + 1) % 256, (p + 1) \div 256>> \o Zeros30
\* whether 32 bytes decode to a point, and the point
FromBytesOK(b) == (b[1] + 256 * b[2]) \in 1..L /\ SubSeq(b, 3, 32) = Zeros30
FromBytes(b) == b[1] + 256 * b[2] - 1

\* SHA-512 of the bytes written, 64 bytes: every byte enters with a weight
\* of its position, and the length enters too; the digest carries the sum in
\* its first two bytes
HashWeights == [i \in 1..160 |-> (31 * i * i * i + 7 * i + 3) % L] \o <<>>
Mix(b) == (Dot(b, HashWeights, 1, Len(b)) + 17 * Len(b) + 7) % L
Pad62 == [i \in 1..62 |-> (37 * i + 11) % 256] \o <<>>
Sha512(b) == LET h == Mix(b) IN <<h % 256, h \div 256>> \o Pad62

\* ------------------------------------------------------------------------
\* Policy
\* ------------------------------------------------------------------------
Enabled == FALSE
Disabled == TRUE

\* cos.mask.Bit(i) of the big.Int mask, held as the set of its one bits
Bit(cos, i) == IF i \in cos.mask THEN 1 ELSE 0

MaskBit(cos, signer) == Bit(cos, signer) /= 0

CountTotal(cos) == Len(cos.keys)

RECURSIVE CountEnabledLoop(_, _, _)
CountEnabledLoop(cos, i, count) ==
  IF i >= Len(cos.keys) THEN count
  ELSE CountEnabledLoop(cos, i + 1,
         IF MaskBit(cos, i) = Enabled THEN count + 1 ELSE count)
CountEnabled(cos) == CountEnabledLoop(cos, 0, 0)

fullPolicy == [kind |-> "full", t |-> 0]
ThresholdPolicy(threshold) == [kind |-> "thres", t |-> threshold]

fullPolicyCheck(cos) == CountEnabled(cos) = CountTotal(cos)
\* a threshold policy that asks for more than t
thresPolicyCheckStrict(p, cos) == CountEnabled(cos) > p.t
thresPolicyCheck(p, cos) == CountEnabled(cos) >= p.t

\* cos.policy.Check(cos)
PolicyCheck(cos) ==
  IF cos.policy.kind = "full" THEN fullPolicyCheck(cos)
  ELSE thresPolicyCheck(cos.policy, cos)

\* ------------------------------------------------------------------------
\* Secret, Commit, Cosign
\* ------------------------------------------------------------------------
NoSecret == [reduced |-> Zeros(32), valid |-> FALSE]

\* a Commit that takes the commit of the first 32 random bytes, unreduced
CommitUnreduced(secretFull) ==
  LET reduced == ScReduce(secretFull)
      R == GeScalarMultBase(Slice(secretFull, 0, 32))
  IN  [commit |-> ToBytes(R), secret |-> [reduced |-> reduced, valid |-> TRUE]]

\* Commit with the 64 bytes read from rand
Commit(secretFull) ==
  LET reduced == ScReduce(secretFull)
      R == GeScalarMultBase(reduced)
  IN  [commit |-> ToBytes(R), secret |-> [reduced |-> reduced, valid |-> TRUE]]

\* the expanded secret key: the clamped first half of SHA-512(privateKey[:32])
ExpandedSecretKey(privateKey) ==
  LET digest1 == Sha512(Slice(privateKey, 0, 32))
  IN  [i \in 1..32 |->
         IF i = 1 THEN digest1[1] - (digest1[1] % 8)        \* &= 248
         ELSE IF i = 32 THEN (digest1[32] % 64) + 64        \* &= 63, |= 64
         ELSE digest1[i]]

\* a challenge that leaves the aggregate public key out of the hash
ChallengeNoKey(aggR, aggK, message) == ScReduce(Sha512(aggR \o message))

\* a challenge that hashes the aggregate public key before the commit
ChallengeKeyFirst(aggR, aggK, message) == ScReduce(Sha512(aggK \o aggR \o message))
\* the challenge: SHA-512(aggregateR || aggregateK || message), reduced
Challenge(aggR, aggK, message) == ScReduce(Sha512(aggR \o aggK \o message))

\* a Cosign that leaves the Secret as it found it
CosignKeepsSecret(privateKey, secret, message, aggregateK, aggregateR) ==
  IF Len(privateKey) /= PrivateKeySize
    THEN [panic |-> TRUE, part |-> <<>>, secret |-> secret]
  ELSE IF Len(aggregateR) /= PublicKeySize
    THEN [panic |-> TRUE, part |-> <<>>, secret |-> secret]
  ELSE IF ~secret.valid
    THEN [panic |-> TRUE, part |-> <<>>, secret |-> secret]
  ELSE
    LET expandedSecretKey == ExpandedSecretKey(privateKey)
        hramDigestReduced == Challenge(aggregateR, aggregateK, message)
        s == ScMulAdd(hramDigestReduced, expandedSecretKey, secret.reduced)
    IN  [panic |-> FALSE, part |-> s, secret |-> secret]

\* Cosign: panic says whether it panicked, part is the share it returned, and
\* secret is the Secret as the call leaves it
Cosign(privateKey, secret, message, aggregateK, aggregateR) ==
  IF Len(privateKey) /= PrivateKeySize
    THEN [panic |-> TRUE, part |-> <<>>, secret |-> secret]
  ELSE IF Len(aggregateR) /= PublicKeySize
    THEN [panic |-> TRUE, part |-> <<>>, secret |-> secret]
  ELSE IF ~secret.valid
    THEN [panic |-> TRUE, part |-> <<>>, secret |-> secret]
  ELSE
    LET expandedSecretKey == ExpandedSecretKey(privateKey)
        hramDigestReduced == Challenge(aggregateR, aggregateK, message)
        s == ScMulAdd(hramDigestReduced, expandedSecretKey, secret.reduced)
    IN  [panic |-> FALSE, part |-> s,
         secret |-> [reduced |-> Zeros(32), valid |-> FALSE]]

\* ------------------------------------------------------------------------
\* Cosigners
\* ------------------------------------------------------------------------
NilCosigners == [nil |-> TRUE]

RECURSIVE SetMaskLoop(_, _, _)
SetMaskLoop(cos, mask, i) ==
  IF i >= Len(cos.keys) THEN cos
  ELSE IF (i \div 8 < Len(mask)) /\ BitSet(mask[(i \div 8) + 1], i % 8)
    THEN SetMaskLoop([cos EXCEPT !.mask = @ \cup {i}], mask, i + 1)
    ELSE SetMaskLoop([cos EXCEPT !.aggr = GeAdd(@, cos.keys[i + 1])], mask, i + 1)

\* a SetMask that does not zero the mask and the aggregate first
SetMaskKeepsOld(cos, mask) == SetMaskLoop(cos, mask, 0)
SetMask(cos, mask) ==
  SetMaskLoop([cos EXCEPT !.mask = {}, !.aggr = GeZero], mask, 0)

\* the decoding loop of NewCosigners; publicKeyBytes is the one buffer every
\* key is copied into
RECURSIVE DecodeKeys(_, _, _, _)
DecodeKeys(publicKeys, i, publicKeyBytes, keys) ==
  IF i > Len(publicKeys) THEN [ok |-> TRUE, keys |-> keys]
  ELSE LET buf == Copy(publicKeyBytes, publicKeys[i])
       IN  IF ~FromBytesOK(buf) THEN [ok |-> FALSE, keys |-> keys]
           ELSE DecodeKeys(publicKeys, i + 1, buf, Append(keys, FromBytes(buf)))

\* a NewCosigners that leaves out the SetMask(nil) call
NewCosignersNoSetMask(publicKeys) ==
  LET d == DecodeKeys(publicKeys, 1, Zeros(32), <<>>)
  IN  IF ~d.ok THEN NilCosigners
      ELSE [nil |-> FALSE, keys |-> d.keys, mask |-> {},
            aggr |-> GeZero, policy |-> fullPolicy]
NewCosigners(publicKeys) ==
  LET d == DecodeKeys(publicKeys, 1, Zeros(32), <<>>)
  IN  IF ~d.ok THEN NilCosigners
      ELSE [SetMask([nil |-> FALSE, keys |-> d.keys, mask |-> {},
                     aggr |-> GeZero, policy |-> fullPolicy], <<>>)
              EXCEPT !.policy = fullPolicy]

MaskLen(cos) == (Len(cos.keys) + 7) \div 8

\* Mask: byte k of the result has bit j set iff bit 8k+j < N of the mask is set
RECURSIVE MaskLoop(_, _, _)
MaskLoop(cos, i, mask) ==
  IF i >= Len(cos.keys) THEN mask
  ELSE MaskLoop(cos, i + 1,
         IF Bit(cos, i) > 0
           THEN [mask EXCEPT ![(i \div 8) + 1] = @ + 2 ^ (i % 8)]
           ELSE mask)
\* a Mask whose loop starts at the second cosigner
MaskFromSecond(cos) == MaskLoop(cos, 1, Zeros((Len(cos.keys) + 7) \div 8))
Mask(cos) == MaskLoop(cos, 0, Zeros((Len(cos.keys) + 7) \div 8))

\* a SetMaskBit that subtracts the key when it enables a cosigner
SetMaskBitSubtracts(cos, signer, bit) ==
  IF signer < 0 THEN [panic |-> TRUE, cos |-> cos]
  ELSE IF Bit(cos, signer) = (IF bit = Disabled THEN 1 ELSE 0)
    THEN [panic |-> FALSE, cos |-> cos]
  ELSE
    LET c1 == [cos EXCEPT !.mask = IF bit = Disabled THEN @ \cup {signer}
                                   ELSE @ \ {signer}]
    IN  IF signer >= Len(cos.keys) THEN [panic |-> TRUE, cos |-> c1]
        ELSE [panic |-> FALSE,
              cos |-> [c1 EXCEPT !.aggr = GeSub(@, cos.keys[signer + 1])]]

\* SetMaskBit: big.Int.Bit panics on a negative index; indexing keys panics
\* on an index >= N, after the bit of the mask has been written
\* a SetMaskBit that does not test the bit before it writes
SetMaskBitNoTest(cos, signer, bit) ==
  IF signer < 0 THEN [panic |-> TRUE, cos |-> cos]
  ELSE
    LET c1 == [cos EXCEPT !.mask = IF bit = Disabled THEN @ \cup {signer}
                                   ELSE @ \ {signer}]
    IN  IF signer >= Len(cos.keys) THEN [panic |-> TRUE, cos |-> c1]
        ELSE [panic |-> FALSE,
              cos |-> [c1 EXCEPT !.aggr = IF bit = Disabled
                                            THEN GeSub(@, cos.keys[signer + 1])
                                            ELSE GeAdd(@, cos.keys[signer + 1])]]
SetMaskBit(cos, signer, bit) ==
  IF signer < 0 THEN [panic |-> TRUE, cos |-> cos]
  ELSE IF bit = Disabled THEN
    IF Bit(cos, signer) = 0 THEN
      LET c1 == [cos EXCEPT !.mask = @ \cup {signer}]
      IN  IF signer >= Len(cos.keys) THEN [panic |-> TRUE, cos |-> c1]
          ELSE [panic |-> FALSE,
                cos |-> [c1 EXCEPT !.aggr = GeSub(@, cos.keys[signer + 1])]]
    ELSE [panic |-> FALSE, cos |-> cos]
  ELSE
    IF Bit(cos, signer) = 1 THEN
      LET c1 == [cos EXCEPT !.mask = @ \ {signer}]
      IN  IF signer >= Len(cos.keys) THEN [panic |-> TRUE, cos |-> c1]
          ELSE [panic |-> FALSE,
                cos |-> [c1 EXCEPT !.aggr = GeAdd(@, cos.keys[signer + 1])]]
    ELSE [panic |-> FALSE, cos |-> cos]

AggregatePublicKey(cos) == ToBytes(cos.aggr)

\* AggregateCommit; the nil result is the empty string
RECURSIVE AggregateCommitLoop(_, _, _, _)
AggregateCommitLoop(cos, commits, i, aggR) ==
  IF i >= Len(cos.keys) THEN ToBytes(aggR)
  ELSE IF MaskBit(cos, i) = Disabled
    THEN AggregateCommitLoop(cos, commits, i + 1, aggR)
  ELSE IF Len(commits[i + 1]) /= PublicKeySize THEN <<>>
  ELSE IF ~FromBytesOK(commits[i + 1]) THEN <<>>
  ELSE AggregateCommitLoop(cos, commits, i + 1,
                           GeAdd(aggR, FromBytes(commits[i + 1])))
\* an AggregateCommit whose loop starts at the second cosigner
AggregateCommitFromSecond(cos, commits) == AggregateCommitLoop(cos, commits, 1, GeZero)
\* an AggregateCommit that examines the slots of disabled cosigners as well
AggregateCommitAllSlots(cos, commits) ==
  AggregateCommitLoop([cos EXCEPT !.mask = {}], commits, 0, GeZero)
AggregateCommit(cos, commits) == AggregateCommitLoop(cos, commits, 0, GeZero)

scOne == <<1, 0>> \o Zeros30

\* the summing loop of AggregateSignature: ok is false when it returned nil
RECURSIVE AggregateSignatureLoop(_, _, _, _)
AggregateSignatureLoop(cos, sigParts, i, aggS) ==
  IF i >= Len(cos.keys) THEN [ok |-> TRUE, aggS |-> aggS]
  ELSE IF MaskBit(cos, i) = Disabled
    THEN AggregateSignatureLoop(cos, sigParts, i + 1, aggS)
  ELSE IF Len(sigParts[i + 1]) /= 32 THEN [ok |-> FALSE, aggS |-> aggS]
  ELSE AggregateSignatureLoop(cos, sigParts, i + 1,
                              ScMulAdd(aggS, scOne, sigParts[i + 1]))

\* an AggregateSignature that starts its sum at one
AggregateSignatureFromOne(cos, aggregateR, sigParts) ==
  IF Len(aggregateR) /= PublicKeySize THEN [panic |-> TRUE, sig |-> <<>>]
  ELSE LET r == AggregateSignatureLoop(cos, sigParts, 0, scOne)
       IN  IF ~r.ok THEN [panic |-> FALSE, sig |-> <<>>]
           ELSE [panic |-> FALSE, sig |-> aggregateR \o r.aggS \o Mask(cos)]

\* an AggregateSignature that appends an all-enabled mask
AggregateSignatureZeroMask(cos, aggregateR, sigParts) ==
  IF Len(aggregateR) /= PublicKeySize THEN [panic |-> TRUE, sig |-> <<>>]
  ELSE LET r == AggregateSignatureLoop(cos, sigParts, 0, Zeros(32))
       IN  IF ~r.ok THEN [panic |-> FALSE, sig |-> <<>>]
           ELSE [panic |-> FALSE, sig |-> aggregateR \o r.aggS \o Zeros(MaskLen(cos))]
AggregateSignature(cos, aggregateR, sigParts) ==
  IF Len(aggregateR) /= PublicKeySize THEN [panic |-> TRUE, sig |-> <<>>]
  ELSE LET r == AggregateSignatureLoop(cos, sigParts, 0, Zeros(32))
       IN  IF ~r.ok THEN [panic |-> FALSE, sig |-> <<>>]
           ELSE [panic |-> FALSE, sig |-> aggregateR \o r.aggS \o Mask(cos)]

\* a verify that rejects the zero share
verifyNonzeroShare(cos, message, aggR, sigR, sigS, sigA) ==
  IF Len(sigR) /= 32 \/ Len(sigS) /= 32 \/ sigS[32] >= 32
    THEN FALSE
  ELSE
    LET aggK == ToBytes(cos.aggr)
        hReduced == Challenge(aggR, aggK, message)
        negA == GeNeg(sigA)
        projR == GeDoubleScalarMultVartime(hReduced, negA, sigS)
        checkR == ToBytes(projR)
    IN  sigS /= Zeros(32) /\ sigR = checkR
\* verify; sigA is passed by value, the negation acts on the copy
verify(cos, message, aggR, sigR, sigS, sigA) ==
  IF Len(sigR) /= 32 \/ Len(sigS) /= 32 \/ sigS[32] >= 32   \* sigS[31]&224 != 0
    THEN FALSE
  ELSE
    LET aggK == ToBytes(cos.aggr)
        hReduced == Challenge(aggR, aggK, message)
        negA == GeNeg(sigA)
        projR == GeDoubleScalarMultVartime(hReduced, negA, sigS)
        checkR == ToBytes(projR)
    IN  sigR = checkR

\* a VerifyPart that turns down the part of a disabled cosigner
VerifyPartEnabledOnly(cos, message, aggR, signer, indR, indS) ==
  /\ MaskBit(cos, signer) = Enabled
  /\ verify(cos, message, aggR, indR, indS, cos.keys[signer + 1])
VerifyPart(cos, message, aggR, signer, indR, indS) ==
  verify(cos, message, aggR, indR, indS, cos.keys[signer + 1])

\* a Verify that consults the policy before it takes the mask of the signature
VerifyPolicyFirst(cos, message, sig) ==
  LET cosigSize == SignatureSize + MaskLen(cos)
  IN  IF Len(sig) /= cosigSize THEN [ret |-> FALSE, cos |-> cos]
      ELSE IF ~PolicyCheck(cos) THEN [ret |-> FALSE, cos |-> cos]
      ELSE LET c1 == SetMask(cos, Slice(sig, 64, Len(sig)))
           IN  [ret |-> verify(c1, message, Slice(sig, 0, 32),
                               Slice(sig, 0, 32), Slice(sig, 32, 64), c1.aggr),
                cos |-> c1]

\* a Verify that takes the mask of the signature before it checks the length
VerifyMaskFirst(cos, message, sig) ==
  LET cosigSize == SignatureSize + MaskLen(cos)
      c1 == IF Len(sig) >= 64 THEN SetMask(cos, Slice(sig, 64, Len(sig))) ELSE cos
  IN  IF Len(sig) /= cosigSize THEN [ret |-> FALSE, cos |-> c1]
      ELSE IF ~PolicyCheck(c1) THEN [ret |-> FALSE, cos |-> c1]
      ELSE [ret |-> verify(c1, message, Slice(sig, 0, 32),
                           Slice(sig, 0, 32), Slice(sig, 32, 64), c1.aggr),
            cos |-> c1]

\* a VerifyPart whose negation acts on the key of the set, not on a copy
VerifyPartNegatesKey(cos, message, aggR, signer, indR, indS) ==
  [ret |-> VerifyPart(cos, message, aggR, signer, indR, indS),
   cos |-> [cos EXCEPT !.keys[signer + 1] = GeNeg(@)]]
\* a call of VerifyPart: ret is the result and cos the set as the call leaves
\* it; verify takes the key by value, so the set is as it was
VerifyPartCall(cos, message, aggR, signer, indR, indS) ==
  [ret |-> VerifyPart(cos, message, aggR, signer, indR, indS), cos |-> cos]

\* Verify: ret is the result and cos the set as the call leaves it
Verify(cos, message, sig) ==
  LET cosigSize == SignatureSize + MaskLen(cos)
  IN  IF Len(sig) /= cosigSize THEN [ret |-> FALSE, cos |-> cos]
      ELSE LET c1 == SetMask(cos, Slice(sig, 64, Len(sig)))
           IN  IF ~PolicyCheck(c1) THEN [ret |-> FALSE, cos |-> c1]
               ELSE [ret |-> verify(c1, message, Slice(sig, 0, 32),
                                    Slice(sig, 0, 32), Slice(sig, 32, 64), c1.aggr),
                     cos |-> c1]

SetPolicy(cos, policy) == [cos EXCEPT !.policy = policy]

\* ------------------------------------------------------------------------
\* Keys, messages and random streams the operations are run on
\* ------------------------------------------------------------------------
Seed(k) == [i \in 1..32 |-> (k * i) % 256]

\* ed25519.GenerateKey: the public key a*B of a seed, and the private key
\* seed || public key
PublicOf(seed) == ToBytes(GeScalarMultBase(ExpandedSecretKey(seed)))
PrivateOf(seed) == seed \o PublicOf(seed)

PrivKeys == {PrivateOf(Seed(3)), PrivateOf(Seed(5))}

IdentityKey == ToBytes(GeZero)

\* a cosigner: the private key it holds and the public key listed for it,
\* which is its own or the identity point
KeyChoices ==
  {[priv |-> k, pub |-> Slice(k, 32, 64)] : k \in PrivKeys}
    \cup {[priv |-> PrivateOf(Seed(3)), pub |-> IdentityKey]}

RECURSIVE SeqsUpTo(_, _)
SeqsUpTo(S, n) ==
  IF n = 0 THEN {<<>>}
  ELSE LET shorter == SeqsUpTo(S, n - 1)
       IN  shorter \cup {Append(q, x) : q \in {t \in shorter : Len(t) = n - 1}, x \in S}

KeyRings == SeqsUpTo(KeyChoices, MaxN)

Pubs(ring) == [i \in 1..Len(ring) |-> ring[i].pub]

Hello == <<104, 101, 108, 108, 111>>
Messages == {Hello, <<>>}

\* the 64 bytes cosigner i reads from rand
Rand(i) == [j \in 1..64 |-> (7 * i + 3 * j) % 256]

\* the packed mask with exactly the bits of D (a set of indices below n) set
PackMask(n, D) ==
  [k \in 1..((n + 7) \div 8) |->
     LET RECURSIVE Sum(_)
         Sum(j) == IF j > 7 THEN 0
                   ELSE (IF (8 * (k - 1) + j) \in D THEN 2 ^ j ELSE 0) + Sum(j + 1)
     IN  Sum(0)]

\* One signing round as the package documentation lays it out (steps 1-5): the
\* leader disables the cosigners of D, every other cosigner commits, the leader
\* aggregates, every enabled cosigner cosigns, the leader assembles.
SignRound(ring, D, message) ==
  LET n == Len(ring)
      leader == SetMask(NewCosigners(Pubs(ring)), PackMask(n, D))
      com == [i \in 1..n |-> Commit(Rand(i))]
      coms == [i \in 1..n |-> IF (i - 1) \in D THEN <<>> ELSE com[i].commit]
      R == AggregateCommit(leader, coms)
      K == AggregatePublicKey(leader)
      prts == [i \in 1..n |->
                 IF (i - 1) \in D THEN <<>>
                 ELSE Cosign(ring[i].priv, com[i].secret, message, K, R).part]
  IN  AggregateSignature(leader, R, prts).sig

\* the signatures Verify is called with: the signature of a round on Hello for
\* every set D of absent cosigners, and the signature of the full round with
\* its last byte cut off, a byte appended, the top bit of s set, and a padding
\* bit of its mask set
Signatures(ring) ==
  LET n == Len(ring)
      good == {SignRound(ring, D, Hello) : D \in SUBSET (0..(n - 1))}
      g == SignRound(ring, {}, Hello)
  IN  good
      \cup {SubSeq(g, 1, Len(g) - 1), g \o <<0>>, [g EXCEPT ![64] = @ + 128]}
      \cup (IF n > 0 THEN {[g EXCEPT ![Len(g)] = @ + 128]} ELSE {})

\* the commits of the cosigners, each from its random stream
Commits(ring) == [i \in 1..Len(ring) |-> Commit(Rand(i)).commit]

VARIABLES
  keyring,   \* the cosigners: private key held and public key listed
  sigs,      \* the signatures Verify is called with
  commits,   \* the commits AggregateCommit is called with
  cos,       \* the leader's Cosigners object
  last,      \* the last operation: its name, arguments and result
  round,     \* the signing round in progress
  hist,      \* the calls made so far: their number, the set before the last
             \* call, and the call before it
  pair       \* two Cosigners objects on the heap, each used by its own thread

vars == <<keyring, sigs, commits, cos, last, round, hist, pair>>

Call(op, args, ret, panic) ==
  [op |-> op, args |-> args, ret |-> ret, panic |-> panic]

\* a round of n cosigners of which nothing has happened yet
NewRound(pc, n) ==
  [pc |-> pc,
   coms |-> [i \in 1..n |-> <<>>],         \* the commit of each cosigner
   secrets |-> [i \in 1..n |-> NoSecret],  \* the Secret each cosigner holds
   shares |-> [i \in 1..n |-> 0],          \* the shares each Secret has yielded
   aggK |-> <<>>, aggR |-> <<>>,           \* what the leader sent out
   parts |-> [i \in 1..n |-> <<>>],        \* the part the leader holds of each
   vp |-> [i \in 1..n |-> "none"],         \* the result of VerifyPart on it
   sig |-> <<>>,                           \* the collective signature
   dev |-> "none",                         \* the one departure from the protocol
   enK |-> {}, enR |-> {}, enC |-> {}, enS |-> {},  \* who was enabled at each step
   pset |-> FALSE,                         \* SetPolicy was called
   accepted |-> FALSE,                     \* what Verify returned
   bit |-> 0, tret |-> FALSE]              \* the bit flipped and Verify's result on it

\* ------------------------------------------------------------------------
\* Spec: any sequence of operations on one Cosigners object
\* ------------------------------------------------------------------------
\* no call made yet
NoHist == [n |-> 0, before |-> NilCosigners, prev |-> Call("", <<>>, <<>>, FALSE)]
\* no object allocated yet
NoPair == [heap |-> <<>>]

Init ==
  /\ hist = NoHist
  /\ pair = NoPair
  /\ keyring \in KeyRings
  /\ sigs = Signatures(keyring)
  /\ commits = Commits(keyring)
  /\ cos = NewCosigners(Pubs(keyring))
  /\ last = Call("NewCosigners", <<>>, <<>>, FALSE)
  /\ round = NewRound("off", 0)

\* the buffers SetMask is called with: nil, every one-byte value on the low
\* bits, one with padding bits, a two-byte buffer
MaskBufs ==
  {<<>>} \cup {<<b>> : b \in 0..(2 ^ MaxN - 1)} \cup {<<128 + 1>>, <<0, 1>>}

DoSetMask ==
  /\ \E m \in MaskBufs :
       /\ cos' = SetMask(cos, m)
       /\ last' = Call("SetMask", <<m>>, <<>>, FALSE)
  /\ UNCHANGED <<keyring, sigs, commits, hist, pair, round>>

DoSetMaskBit ==
  /\ \E signer \in 0..(Len(cos.keys) - 1), bit \in {Enabled, Disabled} :
       LET r == SetMaskBit(cos, signer, bit)
       IN  /\ cos' = r.cos
           /\ last' = Call("SetMaskBit", <<signer, bit>>, <<>>, r.panic)
  /\ UNCHANGED <<keyring, sigs, commits, hist, pair, round>>

Policies == {fullPolicy} \cup {ThresholdPolicy(t) : t \in 0..MaxN}

DoSetPolicy ==
  /\ \E p \in {fullPolicy, ThresholdPolicy(1), ThresholdPolicy(MaxN)} :
       /\ cos' = SetPolicy(cos, p)
       /\ last' = Call("SetPolicy", <<p>>, <<>>, FALSE)
  /\ UNCHANGED <<keyring, sigs, commits, hist, pair, round>>

\* Verify is called on Hello with every signature, and on the empty message
\* with the signatures of the right length that mark every cosigner enabled
DoVerify ==
  /\ \E message \in Messages, s \in sigs :
       /\ \/ message = Hello
          \/ /\ Len(s) = SignatureSize + MaskLen(cos)
             /\ Slice(s, 64, Len(s)) = Zeros(MaskLen(cos))
       /\ LET r == Verify(cos, message, s)
          IN  /\ cos' = r.cos
              /\ last' = Call("Verify", <<message, s>>, r.ret, FALSE)
  /\ UNCHANGED <<keyring, sigs, commits, hist, pair, round>>

DoAggregatePublicKey ==
  /\ last' = Call("AggregatePublicKey", <<>>, AggregatePublicKey(cos), FALSE)
  /\ UNCHANGED <<keyring, sigs, commits, hist, pair, cos, round>>

DoAggregateCommit ==
  /\ last' = Call("AggregateCommit", <<commits>>, AggregateCommit(cos, commits), FALSE)
  /\ UNCHANGED <<keyring, sigs, commits, hist, pair, cos, round>>

\* AggregateSignature with the aggregate commit of the enabled cosigners and
\* a part 1, 2, .. per cosigner
DoAggregateSignature ==
  /\ LET aggregateR == AggregateCommit(cos, commits)
         sigParts == [i \in 1..Len(keyring) |-> ScBytes(i)]
         r == AggregateSignature(cos, aggregateR, sigParts)
     IN  last' = Call("AggregateSignature", <<aggregateR, sigParts>>, r.sig, r.panic)
  /\ UNCHANGED <<keyring, sigs, commits, hist, pair, cos, round>>

\* VerifyPart of the first cosigner's commit with a part 1
DoVerifyPart ==
  /\ Len(keyring) > 0
  /\ LET aggR == AggregateCommit(cos, commits)
     IN  last' = Call("VerifyPart", <<Hello, aggR, 0, commits[1], ScBytes(1)>>,
                      VerifyPart(cos, Hello, aggR, 0, commits[1], ScBytes(1)), FALSE)
  /\ UNCHANGED <<keyring, sigs, commits, hist, pair, cos, round>>

Next ==
  \/ DoSetMask
  \/ DoSetMaskBit
  \/ DoSetPolicy
  \/ DoVerify
  \/ DoAggregatePublicKey
  \/ DoAggregateCommit
  \/ DoAggregateSignature
  \/ DoVerifyPart

Spec == Init /\ [][Next]_vars

\* ------------------------------------------------------------------------
\* RoundSpec: one signing round on Hello, run by the leader on cos with the
\* cosigners of keyring, then verified; at most one step departs from the
\* protocol (round.dev)
\* ------------------------------------------------------------------------
RoundInit ==
  /\ hist = NoHist
  /\ pair = NoPair
  /\ keyring \in KeyRings
  /\ sigs = {}
  /\ commits = <<>>
  /\ cos = NewCosigners(Pubs(keyring))
  /\ last = Call("NewCosigners", <<>>, <<>>, FALSE)
  /\ round = NewRound("mask", Len(keyring))

N == Len(keyring)
Signers == 0..(N - 1)
EnabledNow == {i \in Signers : MaskBit(cos, i) = Enabled}

\* the leader fixes the participation mask: the cosigners of D are absent
RSetMask ==
  /\ round.pc = "mask"
  /\ \E D \in SUBSET Signers :
       LET m == PackMask(N, D)
       IN  /\ cos' = SetMask(cos, m)
           /\ last' = Call("SetMask", <<m>>, <<>>, FALSE)
  /\ round' = [round EXCEPT !.pc = "commit"]
  /\ UNCHANGED <<keyring, sigs, commits, hist, pair>>

\* the next cosigner that has not committed yet calls Commit
RCommit ==
  /\ round.pc = "commit"
  /\ \E i \in Signers :
       /\ round.coms[i + 1] = <<>>
       /\ \A j \in 0..(i - 1) : round.coms[j + 1] /= <<>>
       /\ LET c == Commit(Rand(i + 1))
          IN  /\ round' = [round EXCEPT !.coms[i + 1] = c.commit,
                                        !.secrets[i + 1] = c.secret]
              /\ last' = Call("Commit", <<i>>, c.commit, FALSE)
  /\ UNCHANGED <<keyring, sigs, commits, hist, pair, cos>>

RAggregatePublicKey ==
  /\ round.pc = "commit"
  /\ \A i \in Signers : round.coms[i + 1] /= <<>>
  /\ LET K == AggregatePublicKey(cos)
     IN  /\ round' = [round EXCEPT !.pc = "aggR", !.aggK = K, !.enK = EnabledNow]
         /\ last' = Call("AggregatePublicKey", <<>>, K, FALSE)
  /\ UNCHANGED <<keyring, sigs, commits, hist, pair, cos>>

RAggregateCommit ==
  /\ round.pc = "aggR"
  /\ LET R == AggregateCommit(cos, round.coms)
     IN  /\ round' = [round EXCEPT !.pc = "cosign", !.aggR = R, !.enR = EnabledNow]
         /\ last' = Call("AggregateCommit", <<round.coms>>, R, FALSE)
  /\ UNCHANGED <<keyring, sigs, commits, hist, pair, cos>>

\* the shares a cosigner may hand in: the one Cosign returned, that share
\* plus one, and the same scalar written as s + L
PartKinds == {"honest", "plusone", "plusL"}
PartOf(s, kind) ==
  IF kind = "honest" THEN s
  ELSE IF kind = "plusone" THEN ScBytes((LEMod(s) + 1) % L)
  ELSE ScBytes(LEMod(s) + L)

\* cosigner i calls Cosign with its Secret and what the leader sent out, and
\* hands in a part of the given kind
CosignStep(i, kind, dev) ==
  LET r == Cosign(keyring[i + 1].priv, round.secrets[i + 1], Hello,
                  round.aggK, round.aggR)
  IN  /\ round' = [round EXCEPT
                     !.secrets[i + 1] = r.secret,
                     !.shares[i + 1] = IF r.panic THEN @ ELSE @ + 1,
                     !.parts[i + 1] = IF r.panic THEN @ ELSE PartOf(r.part, kind),
                     !.enC = @ \cup {i},
                     !.dev = dev]
      /\ last' = Call("Cosign", <<i, round.secrets[i + 1]>>, r.part, r.panic)

\* the next enabled cosigner whose part the leader lacks cosigns
RCosign ==
  /\ round.pc = "cosign"
  /\ \E i \in EnabledNow :
       /\ round.parts[i + 1] = <<>>
       /\ \A j \in EnabledNow : j < i => round.parts[j + 1] /= <<>>
       /\ \E kind \in PartKinds :
            /\ kind /= "honest" => round.dev = "none"
            /\ CosignStep(i, kind, IF kind = "honest" THEN round.dev ELSE kind)
  /\ UNCHANGED <<keyring, sigs, commits, hist, pair, cos>>

\* a cosigner that has cosigned calls Cosign again with the same Secret
RCosignAgain ==
  /\ round.pc = "cosign"
  /\ round.dev = "none"
  /\ \E i \in Signers :
       /\ round.shares[i + 1] > 0
       /\ CosignStep(i, "honest", "again")
  /\ UNCHANGED <<keyring, sigs, commits, hist, pair, cos>>

\* the leader changes the mask after the aggregate public key went out
RRemask ==
  /\ round.pc \in {"aggR", "cosign", "vpart"}
  /\ round.dev = "none"
  /\ \E D \in SUBSET Signers :
       LET m == PackMask(N, D)
       IN  /\ D /= cos.mask
           /\ cos' = SetMask(cos, m)
           /\ last' = Call("SetMask", <<m>>, <<>>, FALSE)
  /\ round' = [round EXCEPT !.dev = "remask"]
  /\ UNCHANGED <<keyring, sigs, commits, hist, pair>>

\* the leader has a part of every enabled cosigner and turns to checking them
RCollected ==
  /\ round.pc = "cosign"
  /\ \A i \in EnabledNow : round.parts[i + 1] /= <<>>
  /\ round' = [round EXCEPT !.pc = "vpart"]
  /\ UNCHANGED <<keyring, sigs, commits, hist, pair, cos, last>>

\* the leader calls VerifyPart on the next enabled cosigner's commit and part
RVerifyPart ==
  /\ round.pc = "vpart"
  /\ \E i \in EnabledNow :
       /\ round.vp[i + 1] = "none"
       /\ round.parts[i + 1] /= <<>>
       /\ \A j \in EnabledNow : j < i => round.vp[j + 1] /= "none"
       /\ LET ok == VerifyPart(cos, Hello, round.aggR, i, round.coms[i + 1],
                               round.parts[i + 1])
          IN  /\ round' = [round EXCEPT !.vp[i + 1] = IF ok THEN "ok" ELSE "bad"]
              /\ last' = Call("VerifyPart", <<i>>, ok, FALSE)
  /\ UNCHANGED <<keyring, sigs, commits, hist, pair, cos>>

RAggregateSignature ==
  /\ round.pc = "vpart"
  /\ \A i \in EnabledNow : round.vp[i + 1] /= "none" \/ round.parts[i + 1] = <<>>
  /\ LET r == AggregateSignature(cos, round.aggR, round.parts)
     IN  /\ round' = [round EXCEPT !.pc = IF r.sig = <<>> THEN "done" ELSE "verify",
                                   !.sig = r.sig, !.enS = EnabledNow]
         /\ last' = Call("AggregateSignature", <<round.aggR, round.parts>>, r.sig, r.panic)
  /\ UNCHANGED <<keyring, sigs, commits, hist, pair, cos>>

RSetPolicy ==
  /\ round.pc = "verify"
  /\ ~round.pset
  /\ \E p \in Policies :
       /\ cos' = SetPolicy(cos, p)
       /\ last' = Call("SetPolicy", <<p>>, <<>>, FALSE)
  /\ round' = [round EXCEPT !.pset = TRUE]
  /\ UNCHANGED <<keyring, sigs, commits, hist, pair>>

RVerify ==
  /\ round.pc = "verify"
  /\ LET r == Verify(cos, Hello, round.sig)
     IN  /\ cos' = r.cos
         /\ round' = [round EXCEPT !.pc = "done", !.accepted = r.ret]
         /\ last' = Call("Verify", <<Hello, round.sig>>, r.ret, FALSE)
  /\ UNCHANGED <<keyring, sigs, commits, hist, pair>>

\* sig with bit b (bit b % 8 of byte b \div 8) flipped
FlipBit(sig, b) ==
  [sig EXCEPT ![(b \div 8) + 1] =
     IF BitSet(@, b % 8) THEN @ - 2 ^ (b % 8) ELSE @ + 2 ^ (b % 8)]

\* the bytes of a signature whose bits are flipped: the first two and the
\* last of R and of s, and every byte of the mask
FlipBytes(sig) == {0, 1, 31, 32, 33, 63} \cup 64..(Len(sig) - 1)
FlipBits(sig) == {8 * k + j : k \in FlipBytes(sig), j \in 0..7}

\* a third party flips one bit of the accepted signature of a round run to
\* the protocol, and calls Verify on the result
RTamper ==
  /\ round.pc = "done"
  /\ round.accepted
  /\ round.dev = "none"
  /\ \E b \in FlipBits(round.sig) :
       LET t == FlipBit(round.sig, b)
           r == Verify(cos, Hello, t)
       IN  /\ cos' = r.cos
           /\ round' = [round EXCEPT !.pc = "tampered", !.bit = b, !.tret = r.ret]
           /\ last' = Call("Verify", <<Hello, t>>, r.ret, FALSE)
  /\ UNCHANGED <<keyring, sigs, commits, hist, pair>>

RoundNext ==
  \/ RSetMask
  \/ RCommit
  \/ RAggregatePublicKey
  \/ RAggregateCommit
  \/ RCosign
  \/ RCosignAgain
  \/ RRemask
  \/ RCollected
  \/ RVerifyPart
  \/ RAggregateSignature
  \/ RSetPolicy
  \/ RVerify
  \/ RTamper

RoundSpec == RoundInit /\ [][RoundNext]_vars

\* ------------------------------------------------------------------------
\* CallSpec: a set is built and set up (SetMask, SetPolicy), then one
\* operation is called on arguments of every shape, and a Verify or
\* VerifyPart is called again on the same arguments
\* ------------------------------------------------------------------------
MaxCalls == 2

\* the signature of nobody: the identity commit, the share 0, every cosigner
\* disabled
ZeroSig(n) == ToBytes(GeZero) \o Zeros(32) \o PackMask(n, 0..(n - 1))

\* sig with its scalar s written as s + L, in 32 bytes whose top bits are zero
PlusL(sig) ==
  Slice(sig, 0, 32) \o ScBytes(LEMod(Slice(sig, 32, 64)) + L)
    \o Slice(sig, 64, Len(sig))

CallInit ==
  /\ hist = NoHist
  /\ pair = NoPair
  /\ keyring \in KeyRings
  /\ sigs = Signatures(keyring) \cup {ZeroSig(Len(keyring)),
                                      PlusL(SignRound(keyring, {}, Hello))}
  /\ commits = Commits(keyring)
  /\ cos = NewCosigners(Pubs(keyring))
  /\ last = Call("NewCosigners", <<>>, <<>>, FALSE)
  /\ round = NewRound("off", 0)

\* the hist of a state reached by a call made in this state
Made == [n |-> hist.n + 1, before |-> cos, prev |-> last]

CSetMask ==
  /\ hist.n = 0
  /\ last.op = "NewCosigners"
  /\ \E D \in SUBSET Signers :
       LET m == PackMask(N, D)
       IN  /\ cos' = SetMask(cos, m)
           /\ last' = Call("SetMask", <<m>>, <<>>, FALSE)
  /\ UNCHANGED <<keyring, sigs, commits, hist, pair, round>>

CSetPolicy ==
  /\ hist.n = 0
  /\ last.op \in {"NewCosigners", "SetMask"}
  /\ \E p \in Policies :
       /\ cos' = SetPolicy(cos, p)
       /\ last' = Call("SetPolicy", <<p>>, <<>>, FALSE)
  /\ UNCHANGED <<keyring, sigs, commits, hist, pair, round>>

\* b, b without its last byte, and b with a byte appended
Lengths(b) == {b, SubSeq(b, 1, Len(b) - 1), b \o <<0>>}

\* Cosign on a private key, an aggregate public key and an aggregate commit
\* of the right length and of wrong lengths, with a fresh and with a used Secret
CCosign ==
  /\ hist.n = 0
  /\ last.op \in {"NewCosigners", "SetMask"}
  /\ \E privateKey \in Lengths(PrivateOf(Seed(3))),
        aggregateK \in Lengths(AggregatePublicKey(cos)) \cup {<<>>},
        aggregateR \in Lengths(Commit(Rand(1)).commit),
        secret \in {Commit(Rand(1)).secret, NoSecret} :
       LET r == Cosign(privateKey, secret, Hello, aggregateK, aggregateR)
       IN  /\ last' = Call("Cosign", <<privateKey, secret, Hello, aggregateK, aggregateR>>,
                           r.part, r.panic)
           /\ round' = [round EXCEPT !.secrets = <<r.secret>>]
  /\ hist' = Made
  /\ UNCHANGED <<keyring, sigs, commits, pair, cos>>

\* the strings NewCosigners is handed: two keys, the identity point, two
\* 32-byte strings that decode to no point, and a key cut to its first byte
PubChoices ==
  {PublicOf(Seed(3)), PublicOf(Seed(5)), IdentityKey, Zeros(32),
   [PublicOf(Seed(3)) EXCEPT ![32] = 1], SubSeq(PublicOf(Seed(5)), 1, 1)}

CNewCosigners ==
  /\ hist.n = 0
  /\ last.op = "NewCosigners"
  /\ \E publicKeys \in SeqsUpTo(PubChoices, MaxN) :
       last' = Call("NewCosigners", <<publicKeys>>, NewCosigners(publicKeys), FALSE)
  /\ hist' = Made
  /\ UNCHANGED <<keyring, sigs, commits, pair, round, cos>>

\* the sequences of length n over S
SeqsOf(S, n) == {q \in SeqsUpTo(S, n) : Len(q) = n}

\* the parts AggregateSignature is handed in a slot: two scalars, one of them
\* not reduced, and no part
PartChoices == {ScBytes(7), ScBytes(L + 2), <<>>}

CAggregateSignature ==
  /\ hist.n = 0
  /\ last.op \in {"NewCosigners", "SetMask"}
  /\ \E aggregateR \in {ToBytes(5), SubSeq(ToBytes(5), 1, 31)},
        sigParts \in SeqsOf(PartChoices, N) :
       LET r == AggregateSignature(cos, aggregateR, sigParts)
       IN  last' = Call("AggregateSignature", <<aggregateR, sigParts>>, r.sig, r.panic)
  /\ hist' = Made
  /\ UNCHANGED <<keyring, sigs, commits, pair, round, cos>>

\* the commits AggregateCommit is handed in a slot: two commits, no commit,
\* a commit cut short, and 32 bytes that decode to no point
CommitChoices ==
  {Commit(Rand(1)).commit, Commit(Rand(2)).commit, <<>>,
   SubSeq(Commit(Rand(1)).commit, 1, 31), Zeros(32)}

CAggregateCommit ==
  /\ hist.n = 0
  /\ last.op \in {"NewCosigners", "SetMask"}
  /\ \E cs \in SeqsOf(CommitChoices, N) :
       last' = Call("AggregateCommit", <<cs>>, AggregateCommit(cos, cs), FALSE)
  /\ hist' = Made
  /\ UNCHANGED <<keyring, sigs, commits, pair, round, cos>>

CVerify ==
  /\ hist.n = 0
  /\ \E message \in Messages, s \in sigs :
       /\ \/ message = Hello
          \/ /\ Len(s) = SignatureSize + MaskLen(cos)
             /\ Slice(s, 0, 64) = Slice(ZeroSig(N), 0, 64)
       /\ LET r == Verify(cos, message, s)
          IN  /\ cos' = r.cos
              /\ last' = Call("Verify", <<message, s>>, r.ret, FALSE)
  /\ hist' = Made
  /\ UNCHANGED <<keyring, sigs, commits, pair, round>>

\* the 32 bytes with bit 253 set that hold the scalar of s modulo L
HighBits(s) ==
  LET c == (L - ((32 * Pow256ModL(31)) % L)) % L
  IN  [ScBytes(LEMod(s) + c) EXCEPT ![32] = 32]

\* the shares VerifyPart is handed for a share s that Cosign returned: s, the
\* next scalar, the scalar 1, s + L in 32 bytes, and s with bit 253 set
ShareKinds == {"honest", "next", "one", "plusL", "high"}
ShareOf(s, kind) ==
  IF kind = "honest" THEN s
  ELSE IF kind = "next" THEN ScBytes((LEMod(s) + 1) % L)
  ELSE IF kind = "one" THEN ScBytes(1)
  ELSE IF kind = "plusL" THEN ScBytes(LEMod(s) + L)
  ELSE HighBits(s)

\* the share cosigner signer computes with Cosign for the aggregates of c
HonestShare(c, signer) ==
  Cosign(keyring[signer + 1].priv, Commit(Rand(signer + 1)).secret, Hello,
         AggregatePublicKey(c), AggregateCommit(c, commits)).part

\* VerifyPart on a cosigner's commit and the part it computes for the mask
\* of the set, or a share made from that part
CVerifyPart ==
  /\ hist.n = 0
  /\ last.op \in {"NewCosigners", "SetMask"}
  /\ \E signer \in Signers, kind \in ShareKinds :
       LET aggR == AggregateCommit(cos, commits)
           part == ShareOf(HonestShare(cos, signer), kind)
           r == VerifyPartCall(cos, Hello, aggR, signer, commits[signer + 1], part)
       IN  /\ cos' = r.cos
           /\ last' = Call("VerifyPart", <<Hello, aggR, signer, commits[signer + 1], part>>,
                           r.ret, FALSE)
  /\ hist' = Made
  /\ UNCHANGED <<keyring, sigs, commits, pair, round>>

\* the Verify or VerifyPart just made is made again on the same arguments
CRepeat ==
  /\ hist.n \in 1..(MaxCalls - 1)
  /\ last.op \in {"Verify", "VerifyPart"}
  /\ LET a == last.args
         r == IF last.op = "Verify" THEN Verify(cos, a[1], a[2])
              ELSE VerifyPartCall(cos, a[1], a[2], a[3], a[4], a[5])
     IN  /\ cos' = r.cos
         /\ last' = Call(last.op, a, r.ret, FALSE)
  /\ hist' = Made
  /\ UNCHANGED <<keyring, sigs, commits, pair, round>>

CallNext ==
  \/ CSetMask
  \/ CSetPolicy
  \/ CCosign
  \/ CNewCosigners
  \/ CAggregateSignature
  \/ CAggregateCommit
  \/ CVerify
  \/ CVerifyPart
  \/ CRepeat

CallSpec == CallInit /\ [][CallNext]_vars

\* ------------------------------------------------------------------------
\* MaskSpec: any sequence of SetMask on buffers of any length, SetMaskBit on
\* any index, and Verify; a panic is recovered and the set is used further
\* ------------------------------------------------------------------------
MaskInit ==
  /\ hist = NoHist
  /\ pair = NoPair
  /\ keyring \in KeyRings
  /\ sigs = Signatures(keyring)
  /\ commits = <<>>
  /\ cos = NewCosigners(Pubs(keyring))
  /\ last = Call("NewCosigners", <<>>, <<>>, FALSE)
  /\ round = NewRound("off", 0)

MSetMask ==
  /\ \E m \in MaskBufs :
       /\ cos' = SetMask(cos, m)
       /\ last' = Call("SetMask", <<m>>, <<>>, FALSE)
  /\ UNCHANGED <<keyring, sigs, commits, hist, pair, round>>

\* SetMaskBit on the indices -1 .. N: the two nearest to the range, and all
\* inside it
MSetMaskBit ==
  /\ \E signer \in (0 - 1)..N, bit \in {Enabled, Disabled} :
       LET r == SetMaskBit(cos, signer, bit)
       IN  /\ cos' = r.cos
           /\ last' = Call("SetMaskBit", <<signer, bit>>, <<>>, r.panic)
  /\ UNCHANGED <<keyring, sigs, commits, hist, pair, round>>

MVerify ==
  /\ \E s \in sigs :
       LET r == Verify(cos, Hello, s)
       IN  /\ cos' = r.cos
           /\ last' = Call("Verify", <<Hello, s>>, r.ret, FALSE)
  /\ UNCHANGED <<keyring, sigs, commits, hist, pair, round>>

MaskNext ==
  \/ MSetMask
  \/ MSetMaskBit
  \/ MVerify

MaskSpec == MaskInit /\ [][MaskNext]_vars

\* ------------------------------------------------------------------------
\* PairSpec: two threads; each builds a Cosigners object from the one key list
\* and then runs operations on the object its own pointer holds. The heap
\* holds the objects by address. SetMask, SetMaskBit and Verify take two
\* steps each, so that the writes of one thread fall between the writes of
\* the other. pair.solo[t] is the object of thread t as its operations leave
\* it when run alone, pair.agree whether the last operation returned what it
\* returns when run alone.
\* ------------------------------------------------------------------------
Threads == {1, 2}
Idle == [op |-> "", args |-> <<>>]

OwnRing(seeds) ==
  [i \in 1..Len(seeds) |->
     [priv |-> PrivateOf(Seed(seeds[i])), pub |-> PublicOf(Seed(seeds[i]))]]

\* the key lists: one key, and two keys
PairRings == {OwnRing(<<3>>), OwnRing(<<3, 5>>)}

\* the signatures Verify is called with: of the full round, of the round
\* without cosigner 0, and the first with its last byte cut off
PairSigs(ring) ==
  {SignRound(ring, {}, Hello), SignRound(ring, {0}, Hello),
   SubSeq(SignRound(ring, {}, Hello), 1, SignatureSize)}

\* a NewCosigners that hands out the object already built from the key list
AllocCosignersInterned(heap, publicKeys) ==
  LET c == NewCosigners(publicKeys)
      same == {a \in 1..Len(heap) : heap[a].keys = c.keys}
  IN  IF same /= {} THEN [ptr |-> CHOOSE a \in same : TRUE, heap |-> heap]
      ELSE [ptr |-> Len(heap) + 1, heap |-> Append(heap, c)]

\* cos := &Cosigners{} in NewCosigners: the object is new on the heap, with
\* its own keys, mask, aggregate and policy
AllocCosigners(heap, publicKeys) ==
  [ptr |-> Len(heap) + 1, heap |-> Append(heap, NewCosigners(publicKeys))]

\* what Verify does after SetMask has run: the policy, then verify
VerifyRest(c1, message, sig) ==
  IF ~PolicyCheck(c1) THEN [ret |-> FALSE, cos |-> c1]
  ELSE [ret |-> verify(c1, message, Slice(sig, 0, 32),
                       Slice(sig, 0, 32), Slice(sig, 32, 64), c1.aggr),
        cos |-> c1]

PairInit ==
  /\ hist = NoHist
  /\ keyring \in PairRings
  /\ sigs = PairSigs(keyring)
  /\ commits = Commits(keyring)
  /\ cos = NilCosigners
  /\ last = Call("", <<>>, <<>>, FALSE)
  /\ round = NewRound("off", 0)
  /\ pair = [heap |-> <<>>,
             ptr |-> <<0, 0>>,
             solo |-> <<NilCosigners, NilCosigners>>,
             pc |-> <<Idle, Idle>>,
             agree |-> TRUE]

Ready(t) == pair.ptr[t] /= 0 /\ pair.pc[t] = Idle
Obj(t) == pair.heap[pair.ptr[t]]

\* thread t calls NewCosigners on the key list
PNewCosigners(t) ==
  /\ pair.ptr[t] = 0
  /\ LET a == AllocCosigners(pair.heap, Pubs(keyring))
     IN  pair' = [pair EXCEPT !.heap = a.heap,
                              !.ptr[t] = a.ptr,
                              !.solo[t] = NewCosigners(Pubs(keyring)),
                              !.agree = TRUE]
  /\ UNCHANGED <<keyring, sigs, commits, hist, cos, round, last>>

\* SetMask, first step: mask and aggregate are zeroed
PSetMaskBegin(t) ==
  /\ Ready(t)
  /\ \E D \in SUBSET Signers :
       pair' = [pair EXCEPT
                  !.heap[pair.ptr[t]] = [@ EXCEPT !.mask = {}, !.aggr = GeZero],
                  !.pc[t] = [op |-> "SetMask", args |-> <<PackMask(N, D)>>]]
  /\ UNCHANGED <<keyring, sigs, commits, hist, cos, round, last>>

\* SetMask, second step: the loop over the keys
PSetMaskEnd(t) ==
  /\ pair.pc[t].op = "SetMask"
  /\ LET m == pair.pc[t].args[1]
     IN  /\ pair' = [pair EXCEPT
                       !.heap[pair.ptr[t]] = SetMaskLoop(@, m, 0),
                       !.solo[t] = SetMask(@, m),
                       !.pc[t] = Idle,
                       !.agree = TRUE]
  /\ UNCHANGED <<keyring, sigs, commits, hist, cos, round, last>>

\* SetMaskBit, first step: the bit is tested and, if it differs, written
PSetMaskBitBegin(t) ==
  /\ Ready(t)
  /\ \E signer \in Signers, bit \in {Enabled, Disabled} :
       LET differs == Bit(Obj(t), signer) = (IF bit = Disabled THEN 0 ELSE 1)
       IN  pair' = [pair EXCEPT
                      !.heap[pair.ptr[t]] =
                         IF ~differs THEN @
                         ELSE [@ EXCEPT !.mask = IF bit = Disabled THEN @ \cup {signer}
                                                 ELSE @ \ {signer}],
                      !.pc[t] = [op |-> "SetMaskBit", args |-> <<signer, bit, differs>>]]
  /\ UNCHANGED <<keyring, sigs, commits, hist, cos, round, last>>

\* SetMaskBit, second step: the key is subtracted from or added to the aggregate
PSetMaskBitEnd(t) ==
  /\ pair.pc[t].op = "SetMaskBit"
  /\ LET signer == pair.pc[t].args[1]
         bit == pair.pc[t].args[2]
         differs == pair.pc[t].args[3]
         r == SetMaskBit(pair.solo[t], signer, bit)
     IN  /\ pair' = [pair EXCEPT
                       !.heap[pair.ptr[t]] =
                          IF ~differs THEN @
                          ELSE [@ EXCEPT !.aggr = IF bit = Disabled
                                                    THEN GeSub(@, Obj(t).keys[signer + 1])
                                                    ELSE GeAdd(@, Obj(t).keys[signer + 1])],
                       !.solo[t] = r.cos,
                       !.pc[t] = Idle,
                       !.agree = TRUE]
  /\ UNCHANGED <<keyring, sigs, commits, hist, cos, round, last>>

PSetPolicy(t) ==
  /\ Ready(t)
  /\ \E p \in {fullPolicy, ThresholdPolicy(1)} :
       /\ pair' = [pair EXCEPT !.heap[pair.ptr[t]] = SetPolicy(@, p),
                               !.solo[t] = SetPolicy(@, p),
                               !.agree = TRUE]
  /\ UNCHANGED <<keyring, sigs, commits, hist, cos, round, last>>

\* Verify, first step: the length is tested and SetMask zeroes mask and
\* aggregate
PVerifyBegin(t) ==
  /\ Ready(t)
  /\ \E s \in sigs :
       LET fits == Len(s) = SignatureSize + MaskLen(Obj(t))
       IN  pair' = [pair EXCEPT
                      !.heap[pair.ptr[t]] =
                         IF fits THEN [@ EXCEPT !.mask = {}, !.aggr = GeZero] ELSE @,
                      !.pc[t] = [op |-> "Verify", args |-> <<s, fits>>]]
  /\ UNCHANGED <<keyring, sigs, commits, hist, cos, round, last>>

\* Verify, second step: the loop of SetMask, the policy, and verify
PVerifyEnd(t) ==
  /\ pair.pc[t].op = "Verify"
  /\ LET s == pair.pc[t].args[1]
         fits == pair.pc[t].args[2]
         r == IF fits
                THEN VerifyRest(SetMaskLoop(Obj(t), Slice(s, 64, Len(s)), 0), Hello, s)
                ELSE [ret |-> FALSE, cos |-> Obj(t)]
         alone == Verify(pair.solo[t], Hello, s)
     IN  /\ pair' = [pair EXCEPT !.heap[pair.ptr[t]] = r.cos,
                                 !.solo[t] = alone.cos,
                                 !.pc[t] = Idle,
                                 !.agree = (r.ret = alone.ret)]
  /\ UNCHANGED <<keyring, sigs, commits, hist, cos, round, last>>

\* the aggregation operations AggregatePublicKey, AggregateCommit and
\* AggregateSignature, each on the object of the thread
PAggregate(t) ==
  /\ Ready(t)
  /\ \E op \in {"AggregatePublicKey", "AggregateCommit", "AggregateSignature"} :
       LET parts == [i \in 1..N |-> ScBytes(7)]
           Run(c) == IF op = "AggregatePublicKey" THEN AggregatePublicKey(c)
                     ELSE IF op = "AggregateCommit" THEN AggregateCommit(c, commits)
                     ELSE AggregateSignature(c, commits[1], parts).sig
       IN  /\ pair' = [pair EXCEPT !.agree = (Run(Obj(t)) = Run(pair.solo[t]))]
  /\ UNCHANGED <<keyring, sigs, commits, hist, cos, round, last>>

PairNext ==
  \E t \in Threads :
    \/ PNewCosigners(t)
    \/ PSetMaskBegin(t)
    \/ PSetMaskEnd(t)
    \/ PSetMaskBitBegin(t)
    \/ PSetMaskBitEnd(t)
    \/ PSetPolicy(t)
    \/ PVerifyBegin(t)
    \/ PVerifyEnd(t)
    \/ PAggregate(t)

PairSpec == PairInit /\ [][PairNext]_vars

\* ------------------------------------------------------------------------
\* WideSpec: SetMask and SetMaskBit on a set of more than eight cosigners,
\* whose mask takes two bytes; hist.before is the set before the last call
\* ------------------------------------------------------------------------
WideN == 9

WideRing == OwnRing([i \in 1..WideN |-> IF i % 2 = 1 THEN 3 ELSE 5])

\* the buffers SetMask is called with: nil, one byte, two bytes, three bytes
WideBufs ==
  {<<>>, <<1>>, <<255>>, <<0, 1>>, <<1, 0>>, <<254, 255>>, <<0, 0, 1>>,
   <<170, 1, 255>>}

WideInit ==
  /\ hist = NoHist
  /\ pair = NoPair
  /\ keyring = WideRing
  /\ sigs = {}
  /\ commits = <<>>
  /\ cos = NewCosigners(Pubs(keyring))
  /\ last = Call("NewCosigners", <<>>, <<>>, FALSE)
  /\ round = NewRound("off", 0)

WSetMask ==
  /\ \E m \in WideBufs :
       /\ cos' = SetMask(cos, m)
       /\ last' = Call("SetMask", <<m>>, <<>>, FALSE)
  /\ hist' = [hist EXCEPT !.before = cos]
  /\ UNCHANGED <<keyring, sigs, commits, pair, round>>

\* SetMaskBit on the first and the last cosigner
WSetMaskBit ==
  /\ \E signer \in {0, N - 1}, bit \in {Enabled, Disabled} :
       LET r == SetMaskBit(cos, signer, bit)
       IN  /\ cos' = r.cos
           /\ last' = Call("SetMaskBit", <<signer, bit>>, <<>>, r.panic)
  /\ hist' = [hist EXCEPT !.before = cos]
  /\ UNCHANGED <<keyring, sigs, commits, pair, round>>

WideNext ==
  \/ WSetMask
  \/ WSetMaskBit

WideSpec == WideInit /\ [][WideNext]_vars

\* ------------------------------------------------------------------------
\* Properties
\* ------------------------------------------------------------------------
\* the sum of keys[i] over the indices i of S
RECURSIVE SumKeys(_, _)
SumKeys(keys, S) ==
  IF S = {} THEN GeZero
  ELSE LET i == CHOOSE x \in S : TRUE
       IN  GeAdd(keys[i + 1], SumKeys(keys, S \ {i}))

\* the indices in [0,N) whose mask bit is clear
EnabledSet(c) == {i \in 0..(Len(c.keys) - 1) : i \notin c.mask}

\* C1: after every operation on the set the cached aggregate is the sum of
\* keys[i] over exactly the i in [0,N) whose mask bit is clear, and it is the
\* aggregate SetMask computes from scratch for the packed mask Mask() returns.
C1_AggregateIsSumOfEnabled ==
  /\ cos.aggr = SumKeys(cos.keys, EnabledSet(cos))
  /\ cos.aggr = SetMask(cos, Mask(cos)).aggr

\* cosigner 0 was enabled again by SetMaskBit while another stays disabled
C1_Witness ==
  /\ last.op = "SetMaskBit"
  /\ last.args = <<0, Enabled>>
  /\ cos.mask /= {}
  /\ 0 \notin cos.mask

\* the arguments of the last call, when it was Verify
VerifyMessage == last.args[1]
VerifySig == last.args[2]
RightLength == Len(VerifySig) = SignatureSize + MaskLen(cos)
\* bit i of the mask trailer sig[64:]
TrailerBit(sig, i) == BitSet(sig[64 + (i \div 8) + 1], i % 8)
\* the cosigners the trailer of sig marks enabled
TrailerEnabled(sig) == {i \in 0..(Len(cos.keys) - 1) : ~TrailerBit(sig, i)}

\* C6: after Verify of a signature of the right length, whatever it returned,
\* the mask of the set is the participation mask of the signature's trailer
\* (Mask() returns its bits below N), and the cached aggregate is the sum of
\* the keys that trailer marks enabled.
C6_VerifyOverwritesMask ==
  (last.op = "Verify" /\ RightLength) =>
    /\ EnabledSet(cos) = TrailerEnabled(VerifySig)
    /\ \A i \in 0..(Len(cos.keys) - 1) :
         BitSet(Mask(cos)[(i \div 8) + 1], i % 8) = TrailerBit(VerifySig, i)
    /\ Len(Mask(cos)) = Len(VerifySig) - 64
    /\ cos.aggr = SumKeys(cos.keys, TrailerEnabled(VerifySig))

\* Verify returned false because the policy rejected, and left a mask with a
\* disabled cosigner behind
C6_Witness ==
  /\ last.op = "Verify"
  /\ RightLength
  /\ ~last.ret
  /\ cos.policy = fullPolicy
  /\ TrailerEnabled(VerifySig) /= 0..(Len(cos.keys) - 1)
  /\ cos.mask /= {}

\* C7: Verify of a signature whose length is not 64 + ceil(N/8) returns false
\* and leaves the mask, the aggregate and the policy of the set as they were.
C7_WrongLengthLeavesSet ==
  [][(last'.op = "Verify" /\ Len(last'.args[2]) /= SignatureSize + MaskLen(cos))
       => (last'.ret = FALSE /\ cos' = cos)]_vars

\* Verify of a signature of a wrong length on a set with a disabled cosigner
\* and a threshold policy
C7_Witness ==
  /\ last.op = "Verify"
  /\ ~RightLength
  /\ ~last.ret
  /\ cos.mask /= {}
  /\ cos.policy = ThresholdPolicy(1)

\* whether policy p rejects a set of n cosigners of which en are enabled
PolicyRejects(p, en, n) ==
  IF p.kind = "full" THEN en /= n ELSE en < p.t

\* whether (R, s) of sig satisfies the curve equation for the set as it is
CurveCheck(c, message, sig) ==
  verify(c, message, Slice(sig, 0, 32), Slice(sig, 0, 32), Slice(sig, 32, 64), c.aggr)

\* C8: Verify returns false whenever the policy of the set rejects the mask of
\* the signature, whether or not (R, s) is valid; the default policy accepts
\* iff every cosigner is enabled, ThresholdPolicy(t) iff at least t are; when
\* the policy accepts, the curve check decides; and the policy SetPolicy
\* installed is the policy of the set.
C8_PolicyDecides ==
  /\ last.op = "SetPolicy" => cos.policy = last.args[1]
  /\ (last.op = "Verify" /\ RightLength) =>
       LET en == Cardinality(TrailerEnabled(VerifySig))
       IN  IF PolicyRejects(cos.policy, en, Len(cos.keys))
             THEN last.ret = FALSE
             ELSE last.ret = CurveCheck(cos, VerifyMessage, VerifySig)

\* a signature whose (R, s) is valid for its mask is rejected by a threshold
\* policy that asks for more cosigners than signed
C8_Witness ==
  /\ last.op = "Verify"
  /\ RightLength
  /\ cos.policy.kind = "thres"
  /\ Cardinality(TrailerEnabled(VerifySig)) < cos.policy.t
  /\ CurveCheck(cos, VerifyMessage, VerifySig)
  /\ ~last.ret

\* C2: a Secret yields at most one share: a Cosign that is handed a valid
\* Secret returns a share and leaves the Secret invalid with r all zero, and
\* a Cosign that is handed a Secret already used panics and returns no share.
C2_SecretSingleUse ==
  /\ \A i \in 1..Len(round.secrets) :
       /\ round.shares[i] <= 1
       /\ round.shares[i] = 1 => round.secrets[i] = [reduced |-> Zeros(32), valid |-> FALSE]
  /\ last.op = "Cosign" =>
       IF last.args[2].valid
         THEN ~last.panic /\ Len(last.ret) = 32
         ELSE last.panic /\ last.ret = <<>>

\* a cosigner called Cosign a second time with its Secret, and it panicked
C2_Witness ==
  /\ last.op = "Cosign"
  /\ round.dev = "again"
  /\ last.panic
  /\ round.shares[last.args[1] + 1] = 1
  /\ ~last.args[2].valid

\* every cosigner is listed with the public key of the private key it holds
OwnKeys == \A i \in 1..N : keyring[i].pub = Slice(keyring[i].priv, 32, 64)

\* the round ran to the protocol and Verify was called on its signature
HonestVerified ==
  round.pc = "done" /\ round.sig /= <<>> /\ round.dev = "none" /\ OwnKeys

\* C3: the signature of a round in which every cosigner took part and
\* followed the protocol is accepted by Verify under the default policy.
C3_FullRoundAccepted ==
  (HonestVerified /\ round.enS = Signers /\ cos.policy = fullPolicy)
    => round.accepted

\* a full round of two cosigners verified without any SetPolicy
C3_Witness ==
  /\ HonestVerified
  /\ round.enS = Signers
  /\ N >= 2
  /\ ~round.pset
  /\ round.accepted

\* C4: the signature of a round of the subset S of the cosigners, whose mask
\* marks exactly S enabled, is accepted under ThresholdPolicy(|S|), and is
\* rejected under the default policy when S is not the whole set.
C4_SubsetRound ==
  HonestVerified =>
    /\ cos.policy = ThresholdPolicy(Cardinality(round.enS)) => round.accepted
    /\ (cos.policy = fullPolicy /\ round.enS /= Signers) => ~round.accepted

\* a round of a proper non-empty subset accepted under its threshold
C4_Witness ==
  /\ HonestVerified
  /\ round.enS /= Signers
  /\ round.enS /= {}
  /\ EnabledSet(cos) = round.enS
  /\ cos.policy = ThresholdPolicy(Cardinality(round.enS))
  /\ round.accepted

\* C5: Verify returns false on an accepted signature with any one bit of R,
\* of s or of the mask trailer (padding bits included) flipped.
C5_AnyBitFlipRejected ==
  round.pc = "tampered" => ~round.tret

\* whether bit b of a signature of the round is a bit of the trailer that no
\* cosigner owns, or the bit of a cosigner whose key is the identity point
BitWithoutKey(b) ==
  /\ b >= 8 * SignatureSize
  /\ (b - 8 * SignatureSize) \in Signers => cos.keys[b - 8 * SignatureSize + 1] = GeZero

\* the flips Verify accepts are flips of bits without a key, and every flip
\* of a padding bit is accepted
C5_AcceptedFlips ==
  round.pc = "tampered" =>
    /\ round.tret => BitWithoutKey(round.bit)
    /\ round.bit >= 8 * SignatureSize + N => round.tret

\* the sum of the commits of the cosigners of S
RECURSIVE SumCommits(_)
SumCommits(S) ==
  IF S = {} THEN GeZero
  ELSE LET i == CHOOSE x \in S : TRUE
       IN  GeAdd(FromBytes(round.coms[i + 1]), SumCommits(S \ {i}))

\* the set of enabled cosigners was not the same at AggregatePublicKey,
\* AggregateCommit, Cosign and AggregateSignature
Diverged ==
  ~(round.enK = round.enR /\ round.enR = round.enC /\ round.enC = round.enS)
RoundVerified == round.pc = "done" /\ round.sig /= <<>>

C10_PartsOkThenSignatureOk ==
  (/\ round.pc \in {"verify", "done"}
   /\ round.sig /= <<>>
   /\ round.dev /= "remask"
   /\ \A i \in round.enS : round.vp[i + 1] = "ok")
    => CurveCheck(cos, Hello, round.sig)

\* every part passed VerifyPart, one of them written as s + L, and the
\* signature was assembled
C10_Witness ==
  /\ round.pc = "verify"
  /\ round.dev = "plusL"
  /\ round.enS /= {}
  /\ \A i \in round.enS : round.vp[i + 1] = "ok"
  /\ Len(round.sig) = SignatureSize + MaskLen(cos)

\* C11: Cosign panics and returns no share when the private key is not 64
\* bytes, when the aggregate public key is not 32 bytes, or when the
\* aggregate commit is not 32 bytes.
C11_BadLengthPanics ==
  (/\ last.op = "Cosign"
   /\ \/ Len(last.args[1]) /= PrivateKeySize
      \/ Len(last.args[4]) /= PublicKeySize
      \/ Len(last.args[5]) /= PublicKeySize)
    => (last.panic /\ last.ret = <<>>)

\* what Cosign does on lengths: it panics exactly when the private key or the
\* aggregate commit has a wrong length or the Secret is not valid, whatever
\* the length of the aggregate public key
C11_PanicsOnKeyOrCommitLength ==
  last.op = "Cosign" =>
    (last.panic <=> \/ Len(last.args[1]) /= PrivateKeySize
                    \/ Len(last.args[5]) /= PublicKeySize
                    \/ ~last.args[2].valid)

\* whether the bits of the packed mask m at the indices n and above are zero
PaddingZero(m, n) ==
  \A j \in n..(8 * Len(m) - 1) : ~BitSet(m[(j \div 8) + 1], j % 8)

\* C12: after SetMask(m), with m of exactly ceil(N/8) bytes and zero bits at
\* the indices >= N, Mask() returns m, and MaskBit(i) is Disabled for i < N
\* exactly when bit i & 7 of m[i >> 3] is set.
C12_SetMaskThenMask ==
  (/\ last.op = "SetMask"
   /\ Len(last.args[1]) = MaskLen(cos)
   /\ PaddingZero(last.args[1], N))
    => /\ Mask(cos) = last.args[1]
       /\ \A i \in Signers :
            (MaskBit(cos, i) = Disabled) <=> BitSet(last.args[1][(i \div 8) + 1], i % 8)

\* SetMask was called on a set of two with the mask that disables the second
C12_Witness ==
  /\ last.op = "SetMask"
  /\ N = 2
  /\ last.args[1] = <<2>>
  /\ Mask(cos) = <<2>>

\* C13: in every state the mask of the set has no bit at an index >= N, and
\* Mask() returns exactly ceil(N/8) bytes with zero bits at the indices >= N,
\* whatever SetMask, SetMaskBit and Verify calls came before.
C13_MaskWithinN ==
  /\ \A i \in cos.mask : i < N
  /\ Len(Mask(cos)) = (N + 7) \div 8
  /\ PaddingZero(Mask(cos), N)

\* what holds of the mask: Mask() returns ceil(N/8) bytes without padding
\* bits, also when the mask of the set holds a bit at an index >= N
C13_SerializedMaskClean ==
  /\ Len(Mask(cos)) = (N + 7) \div 8
  /\ PaddingZero(Mask(cos), N)

\* a set of two whose mask holds bit 2 after SetMaskBit(2, Disabled) panicked
C13_BitBeyondN == N = 2 /\ 2 \in cos.mask /\ MaskBit(cos, 2) = Disabled


\* the sum modulo L of the scalars the parts of the cosigners in S encode
RECURSIVE SumParts(_, _)
SumParts(sigParts, S) ==
  IF S = {} THEN 0
  ELSE LET i == CHOOSE x \in S : TRUE
       IN  (LEMod(sigParts[i + 1]) + SumParts(sigParts, S \ {i})) % L

\* C14: AggregateSignature, given a 32-byte aggregate commit and 32-byte parts
\* in the enabled slots, returns 64 + ceil(N/8) bytes: the aggregate commit,
\* then the sum modulo L of the parts of exactly the enabled cosigners, then
\* the mask of the set; whatever stands in the disabled slots gives the same
\* bytes, and the set is as it was before the call.
C14_AggregateSignatureLayout ==
  (/\ last.op = "AggregateSignature"
   /\ Len(last.args[1]) = PublicKeySize
   /\ \A i \in EnabledSet(hist.before) : Len(last.args[2][i + 1]) = 32)
    => /\ ~last.panic
       /\ Len(last.ret) = SignatureSize + ((N + 7) \div 8)
       /\ Slice(last.ret, 0, 32) = last.args[1]
       /\ Slice(last.ret, 32, 64) = ScBytes(SumParts(last.args[2], EnabledSet(hist.before)))
       /\ Slice(last.ret, 64, Len(last.ret)) = Mask(hist.before)
       /\ \A other \in SeqsOf(PartChoices, N) :
            (\A i \in EnabledSet(hist.before) : other[i + 1] = last.args[2][i + 1])
              => AggregateSignature(hist.before, last.args[1], other).sig = last.ret
       /\ cos = hist.before

C14_Witness ==
  /\ last.op = "AggregateSignature"
  /\ N = 2
  /\ cos.mask = {1}
  /\ last.args[2] = <<ScBytes(L + 2), <<>>>>
  /\ Len(last.ret) = 65
  /\ last.ret[65] = 2


\* the sum of the points the commits of the cosigners in S decode to
RECURSIVE SumPoints(_, _)
SumPoints(cs, S) ==
  IF S = {} THEN GeZero
  ELSE LET i == CHOOSE x \in S : TRUE
       IN  GeAdd(FromBytes(cs[i + 1]), SumPoints(cs, S \ {i}))

\* C15: AggregateCommit returns the encoding of the sum, from the identity, of
\* the commits of exactly the enabled cosigners when each of these is 32 bytes
\* that decode to a point, and the empty result otherwise; whatever stands in
\* the disabled slots gives the same result; the set is as it was before the
\* call in both cases.
C15_AggregateCommitSum ==
  last.op = "AggregateCommit"
    => LET cs == last.args[1]
           en == EnabledSet(hist.before)
       IN  /\ IF \A i \in en : Len(cs[i + 1]) = PublicKeySize /\ FromBytesOK(cs[i + 1])
                THEN last.ret = ToBytes(SumPoints(cs, en))
                ELSE last.ret = <<>>
           /\ \A other \in SeqsOf(CommitChoices, N) :
                (\A i \in en : other[i + 1] = cs[i + 1])
                  => AggregateCommit(hist.before, other) = last.ret
           /\ ~last.panic
           /\ cos = hist.before

C15_Witness ==
  /\ last.op = "AggregateCommit"
  /\ N = 2
  /\ cos.mask = {0}
  /\ last.args[1] = <<Zeros(32), Commit(Rand(2)).commit>>
  /\ last.ret = Commit(Rand(2)).commit


\* ed25519.Verify: the 64-byte signature R || s satisfies s*B = R + h*A, where
\* h is SHA-512(R || A || M) reduced, A the public key and M the message
Ed25519Verify(publicKey, message, sig) ==
  /\ Len(publicKey) = PublicKeySize
  /\ Len(sig) = SignatureSize
  /\ sig[64] < 32
  /\ FromBytesOK(publicKey)
  /\ FromBytesOK(Slice(sig, 0, 32))
  /\ LET A == FromBytes(publicKey)
         R == FromBytes(Slice(sig, 0, 32))
         h == LEMod(Sha512(Slice(sig, 0, 32) \o publicKey \o message)) % L
     IN  GeScalarMultBase(Slice(sig, 32, 64)) = GeAdd(R, (h * A) % L)

\* C16: in a set of one enabled cosigner, Commit, Cosign with the aggregate
\* key A and the aggregate commit R, and AggregateSignature give 65 bytes:
\* the first 64 are an Ed25519 signature of the message under the public key
\* A, and the mask byte is 0.
C16_SingleSignerIsEd25519 ==
  (/\ N = 1
   /\ OwnKeys
   /\ round.dev = "none"
   /\ round.sig /= <<>>
   /\ round.enS = {0})
    => /\ Len(round.sig) = 65
       /\ round.sig[65] = 0
       /\ round.aggK = keyring[1].pub
       /\ Slice(round.sig, 0, 32) = round.aggR
       /\ Ed25519Verify(round.aggK, Hello, Slice(round.sig, 0, 64))

C16_Witness ==
  /\ N = 1
  /\ OwnKeys
  /\ round.dev = "none"
  /\ round.enS = {0}
  /\ last.op = "AggregateSignature"
  /\ Len(round.sig) = 65
  /\ keyring[1].pub /= IdentityKey


\* C17: Verify on the signature whose mask disables every cosigner, whose
\* share is 0 and whose commit is the identity point returns true under
\* ThresholdPolicy(0), for each message; under any policy its result is the
\* decision of the policy on a set with no enabled cosigner.
C17_ZeroParticipantAccepted ==
  (last.op = "Verify" /\ last.args[2] = ZeroSig(N))
    => /\ hist.before.policy = ThresholdPolicy(0) => last.ret
       /\ last.ret <=> \/ hist.before.policy.kind = "full" /\ N = 0
                       \/ hist.before.policy.kind /= "full" /\ hist.before.policy.t <= 0
       /\ EnabledSet(cos) = {}

C17_Witness ==
  /\ last.op = "Verify"
  /\ N = 2
  /\ last.args[1] = <<>>
  /\ last.args[2] = ZeroSig(2)
  /\ cos.policy = ThresholdPolicy(0)
  /\ last.ret


\* C18: NewCosigners on 32-byte keys returns no set when a key does not decode
\* to a point; otherwise it returns a set that holds the decoded keys, has
\* every cosigner enabled, has the sum of all the keys as its aggregate, and
\* has the policy that asks for every cosigner.
C18_NewCosignersResult ==
  (/\ last.op = "NewCosigners"
   /\ hist.n = 1
   /\ \A i \in 1..Len(last.args[1]) : Len(last.args[1][i]) = PublicKeySize)
    => LET publicKeys == last.args[1]
           n == Len(publicKeys)
           c == last.ret
       IN  IF \E i \in 1..n : ~FromBytesOK(publicKeys[i])
             THEN c = NilCosigners
             ELSE /\ ~c.nil
                  /\ c.keys = [i \in 1..n |-> FromBytes(publicKeys[i])]
                  /\ c.mask = {}
                  /\ \A i \in 0..(n - 1) : MaskBit(c, i) = Enabled
                  /\ Mask(c) = Zeros((n + 7) \div 8)
                  /\ c.aggr = SumKeys(c.keys, 0..(n - 1))
                  /\ c.policy = fullPolicy
                  /\ PolicyCheck(c)
                  /\ \A i \in 0..(n - 1) : ~PolicyCheck(SetMaskBit(c, i, Disabled).cos)

C18_Witness ==
  /\ last.op = "NewCosigners"
  /\ hist.n = 1
  /\ last.args[1] = <<PublicOf(Seed(3)), PublicOf(Seed(5))>>
  /\ ~last.ret.nil
  /\ last.ret.aggr /= GeZero
  /\ last.ret.aggr /= last.ret.keys[1]


\* C19: the keys of the set are at all times the points decoded at
\* construction; VerifyPart leaves the whole set as it was; Verify leaves keys
\* and policy as they were and the aggregate either untouched (wrong length)
\* or recomputed as the sum of the keys the mask of the signature enables; a
\* Verify or VerifyPart made a second time on the same arguments returns what
\* it returned the first time.
C19_KeysFixedCallsRepeatable ==
  /\ cos.keys = [i \in 1..N |-> FromBytes(keyring[i].pub)]
  /\ (hist.n >= 1 /\ last.op = "VerifyPart") => cos = hist.before
  /\ (hist.n >= 1 /\ last.op = "Verify")
       => /\ cos.keys = hist.before.keys
          /\ cos.policy = hist.before.policy
          /\ cos.aggr = IF Len(last.args[2]) = SignatureSize + MaskLen(cos)
                          THEN SumKeys(cos.keys,
                                 {i \in Signers :
                                    ~BitSet(last.args[2][65 + (i \div 8)], i % 8)})
                          ELSE hist.before.aggr
  /\ (hist.n >= 2 /\ last.op \in {"Verify", "VerifyPart"})
       => /\ last.args = hist.prev.args
          /\ last.ret = hist.prev.ret
          /\ cos = hist.before

C19_Witness ==
  /\ hist.n = 2
  /\ N = 2
  /\ last.op = "VerifyPart"
  /\ hist.prev.op = "VerifyPart"
  /\ last.ret
  /\ cos.keys[last.args[3] + 1] /= GeZero


\* C20: the two threads hold pointers to two different objects; whenever a
\* thread is between operations, the keys, mask, aggregate and policy of its
\* object are those its own operations produce when run alone, and the
\* result of each operation is the result of the same operation run alone,
\* whatever the other thread has done in between.
C20_ObjectsIndependent ==
  /\ (pair.ptr[1] /= 0 /\ pair.ptr[2] /= 0) => pair.ptr[1] /= pair.ptr[2]
  /\ \A t \in Threads : Ready(t) => Obj(t) = pair.solo[t]
  /\ pair.agree

\* both threads are between operations; the object of thread 1 has cosigner 0 disabled, the object
\* of thread 2 cosigner 1, and the two objects have different policies
C20_Witness ==
  /\ N = 2
  /\ Ready(1)
  /\ Ready(2)
  /\ pair.agree
  /\ Obj(1).mask = {0}
  /\ Obj(2).mask = {1}
  /\ Obj(1).policy /= Obj(2).policy


\* s*B = R + h*keys[signer], with h the reduced hash of aggR, the encoding of
\* the cached aggregate of c, and the message
PartEquation(c, message, aggR, signer, indR, indS) ==
  /\ Len(indR) = 32
  /\ Len(indS) = 32
  /\ FromBytesOK(indR)
  /\ LET h == LEMod(Sha512(aggR \o ToBytes(c.aggr) \o message)) % L
     IN  GeScalarMultBase(indS)
           = GeAdd(FromBytes(indR), (h * c.keys[signer + 1]) % L)

\* C21 as stated: VerifyPart returns true exactly when s_i*B = R_i + h*keys[i].
C21_TrueExactlyOnEquation ==
  last.op = "VerifyPart"
    => (last.ret <=> PartEquation(hist.before, last.args[1], last.args[2],
                                  last.args[3], last.args[4], last.args[5]))

\* C21: VerifyPart returns true exactly when the top three bits of s_i are
\* zero and s_i*B = R_i + h*keys[i]; it accepts the share Cosign gave the
\* cosigner that holds the listed key, rejects every share that encodes
\* another scalar for the same commit, gives the same result when the mask
\* bit of the signer is the other way round, and leaves the set as it was.
C21_VerifyPartEquation ==
  last.op = "VerifyPart"
    => LET c == hist.before
           i == last.args[3]
           own == keyring[i + 1].pub = Slice(keyring[i + 1].priv, 32, 64)
           s == HonestShare(c, i)
           flipped == [c EXCEPT !.mask = IF i \in @ THEN @ \ {i} ELSE @ \cup {i}]
       IN  /\ last.ret <=> /\ last.args[5][32] < 32
                           /\ PartEquation(c, last.args[1], last.args[2], i,
                                           last.args[4], last.args[5])
           /\ (own /\ last.args[5] = s) => last.ret
           /\ (own /\ LEMod(last.args[5]) /= LEMod(s)) => ~last.ret
           /\ VerifyPart(flipped, last.args[1], last.args[2], i,
                         last.args[4], last.args[5]) = last.ret
           /\ cos = c

\* the part of a disabled cosigner, computed by Cosign, is accepted
C21_Witness ==
  /\ last.op = "VerifyPart"
  /\ hist.n = 1
  /\ N = 2
  /\ last.args[3] \in cos.mask
  /\ last.args[5] = HonestShare(cos, last.args[3])
  /\ last.ret


\* C22: a SetMaskBit(i, bit) step with i in [0,N) does not panic; it leaves
\* bit i with the requested value; it subtracts keys[i] from the aggregate
\* when it disables an enabled cosigner, adds keys[i] when it enables a
\* disabled one, and leaves the aggregate alone otherwise; every other mask
\* bit, the keys and the policy stay; the same call made again changes
\* nothing, and the call commutes with a SetMaskBit on any other index.
C22_SetMaskBitIncremental ==
  [][last'.op = "SetMaskBit"
       => LET i == last'.args[1]
              bit == last'.args[2]
          IN  /\ ~last'.panic
              /\ cos'.keys = cos.keys
              /\ cos'.policy = cos.policy
              /\ cos'.mask \ {i} = cos.mask \ {i}
              /\ (i \in cos'.mask) <=> (bit = Disabled)
              /\ cos'.aggr = IF i \notin cos.mask /\ bit = Disabled
                               THEN GeSub(cos.aggr, cos.keys[i + 1])
                             ELSE IF i \in cos.mask /\ bit = Enabled
                               THEN GeAdd(cos.aggr, cos.keys[i + 1])
                             ELSE cos.aggr
              /\ ((i \in cos.mask) <=> (bit = Disabled)) => cos' = cos
              /\ SetMaskBit(cos', i, bit).cos = cos'
              /\ \A j \in Signers \ {i}, b \in {Enabled, Disabled} :
                   SetMaskBit(SetMaskBit(cos, i, bit).cos, j, b).cos
                     = SetMaskBit(SetMaskBit(cos, j, b).cos, i, bit).cos]_vars

\* cosigner 1 has just been disabled in a set of two where cosigner 0 already
\* was: the aggregate has come down to the identity
C22_Witness ==
  /\ last.op = "SetMaskBit"
  /\ last.args = <<1, Disabled>>
  /\ N = 2
  /\ cos.mask = {0, 1}
  /\ cos.aggr = GeZero
  /\ cos.keys[2] /= GeZero


\* C23: after SetMask(m), for every i < N cosigner i is disabled iff byte
\* i>>3 exists in m and has bit i&7 set; the bytes a short or nil buffer
\* lacks count as enabled; the set is the one SetMask(m) gives on a newly
\* built set, so nothing of the mask before the call survives; the aggregate
\* is the sum of the keys m enables.
C23_SetMaskReplaces ==
  last.op = "SetMask"
    => LET m == last.args[1]
       IN  /\ \A i \in Signers :
                (MaskBit(cos, i) = Disabled)
                  <=> (i \div 8 < Len(m) /\ BitSet(m[(i \div 8) + 1], i % 8))
           /\ cos.mask \subseteq Signers
           /\ cos = SetMask(NewCosigners(Pubs(keyring)), m)
           /\ cos.keys = hist.before.keys
           /\ cos.aggr = SumKeys(cos.keys, Signers \ cos.mask)

\* SetMask with a one-byte buffer on a set whose mask takes two bytes:
\* cosigner 8 was disabled before the call and cosigner 0 was not
C23_Witness ==
  /\ last.op = "SetMask"
  /\ last.args[1] = <<1>>
  /\ MaskLen(cos) = 2
  /\ 8 \in hist.before.mask
  /\ 0 \notin hist.before.mask
  /\ cos.mask = {0}


\* the 32 bytes of s are the encoding of a scalar below L
Reduced(s) == Len(s) = 32 /\ s = ScBytes(LEMod(s))

\* the scalar Verify or VerifyPart was handed in the last call; a signature
\* of fewer than 64 bytes holds none
LastScalar ==
  IF last.op = "VerifyPart" THEN last.args[5]
  ELSE IF Len(last.args[2]) >= SignatureSize THEN Slice(last.args[2], 32, 64)
  ELSE <<>>

\* C24: Verify and VerifyPart return false when one of the top three bits of
\* the 32-byte scalar s is set, and a call that returns true was handed a
\* reduced scalar (s < L).
C24_OnlyReducedAccepted ==
  (last.op \in {"Verify", "VerifyPart"} /\ hist.n >= 1)
    => /\ (Len(LastScalar) = 32 /\ LastScalar[32] >= 32) => ~last.ret
       /\ last.ret => Reduced(LastScalar)

\* what holds: a scalar with one of its top three bits set is turned down
C24_TopBitsRejected ==
  (last.op \in {"Verify", "VerifyPart"} /\ hist.n >= 1)
    => ((Len(LastScalar) = 32 /\ LastScalar[32] >= 32) => ~last.ret)

\* Verify accepts the signature of a full round whose scalar is written s + L
C24_PlusLAccepted ==
  /\ last.op = "Verify"
  /\ hist.n >= 1
  /\ N = 2
  /\ last.args[2] = PlusL(SignRound(keyring, {}, Hello))
  /\ ~Reduced(LastScalar)
  /\ last.ret


\* C25: after a Cosign call, however it ended, the Secret it was handed is
\* not valid and its scalar is zero.
C25_SecretSpentHoweverItEnds ==
  last.op = "Cosign"
    => /\ ~round.secrets[1].valid
       /\ round.secrets[1].reduced = Zeros(32)

\* what holds: a Cosign that returns leaves the Secret zeroed and not valid,
\* and a Cosign that panics leaves the Secret as it was handed in
C25_SecretSpentOnReturnOnly ==
  last.op = "Cosign"
    => IF last.panic THEN round.secrets[1] = last.args[2]
       ELSE round.secrets[1] = NoSecret

\* Cosign has panicked on a 63-byte private key and the Secret is still valid
\* and holds its scalar
C25_SecretSurvivesPanic ==
  /\ last.op = "Cosign"
  /\ last.panic
  /\ Len(last.args[1]) = PrivateKeySize - 1
  /\ round.secrets[1].valid
  /\ round.secrets[1].reduced /= Zeros(32)


\* the lists NewCosigners(publicKeys) is compared with: every list that has
\* the same entry as publicKeys at position i
SameAt(publicKeys, i) ==
  {other \in SeqsUpTo(PubChoices, MaxN) :
     Len(other) >= i /\ other[i] = publicKeys[i]}

\* C26: the point NewCosigners holds for position i is the same for all key
\* lists that have the same bytes at position i, also when these are fewer
\* than 32 bytes, and an entry that decodes in one list does not make
\* construction fail as the first entry of another.
C26_EntryDecodedAlone ==
  (last.op = "NewCosigners" /\ hist.n = 1 /\ ~last.ret.nil)
    => \A i \in 1..Len(last.args[1]) :
         /\ ~NewCosigners(<<last.args[1][i]>>).nil
         /\ \A other \in SameAt(last.args[1], i) :
              ~NewCosigners(other).nil
                => NewCosigners(other).keys[i] = last.ret.keys[i]

\* what holds: the same for the entries of 32 bytes
C26_FullEntryDecodedAlone ==
  (last.op = "NewCosigners" /\ hist.n = 1 /\ ~last.ret.nil)
    => \A i \in 1..Len(last.args[1]) :
         Len(last.args[1][i]) = PublicKeySize
           => /\ NewCosigners(<<last.args[1][i]>>).keys[1] = last.ret.keys[i]
              /\ \A other \in SameAt(last.args[1], i) :
                   ~NewCosigners(other).nil
                     => NewCosigners(other).keys[i] = last.ret.keys[i]

\* the key cut to one byte, listed after a whole key, decodes to another
\* point than it does when listed first
C26_ShortKeyTakesBytesOfPrevious ==
  /\ last.op = "NewCosigners"
  /\ hist.n = 1
  /\ Len(last.args[1]) = 2
  /\ last.args[1][1] = PublicOf(Seed(3))
  /\ Len(last.args[1][2]) = 1
  /\ ~last.ret.nil
  /\ last.ret.keys[2] /= NewCosigners(<<last.args[1][2]>>).keys[1]

=============================================================================
